---------------------------- MODULE Spec2Model ----------------------------
(***************************************************************************)
(* A model of the weather pipeline of BeWeatherReady.py: clean_data, the   *)
(* day/hour window, the threshold alerts, the last-hour change summary,    *)
(* the report rows and the three snapshot writers.                         *)
(*                                                                         *)
(* A DataFrame is a sequence of rows in position order.  A row is a record *)
(* with the pandas index label (idx), the Time column and the four metric  *)
(* columns.  A missing cell is NaN.                                        *)
(***************************************************************************)
EXTENDS Integers, Sequences, FiniteSets

VARIABLES
    \* clean_data on its own
    raw, df_clean, df_reclean, cleanPc,
    \* one update_forecast call: its inputs, the wall clock it reads, its outputs
    target_date, alert_start_hour, thresholds, temp_unit, now,
    df_24h, alerts, summary_text, df_table, reqPc,
    \* the served application: the wall clock, the calls of update_forecast
    \* in progress, the snapshot files and the history of the writes
    clock, inv, files, writes

cleanVars == <<raw, df_reclean, cleanPc>>
reqVars == <<target_date, alert_start_hour, thresholds, temp_unit, now,
             df_24h, alerts, summary_text, df_table, reqPc>>
vars == <<raw, df_clean, df_reclean, cleanPc,
          target_date, alert_start_hour, thresholds, temp_unit, now,
          df_24h, alerts, summary_text, df_table, reqPc,
          clock, inv, files, writes>>
appVars == <<clock, inv, files, writes>>
otherVars == <<cleanVars, df_clean, reqVars>>

-----------------------------------------------------------------------------
(* Bounds and value domains *)

\* longest raw feed handed to clean_data
MaxRawLen == 3

\* the missing cell of a DataFrame; every real value of the model is >= 0
NaN == -1

Metrics == <<"temperature", "wind_speed", "humidity", "precipitation">>
MetricSet == {Metrics[k] : k \in 1..Len(Metrics)}

\* timestamps a raw feed row may carry (abstract, totally ordered)
Timestamps == 1..3

\* which cells of one feed row are missing: none, one metric, or all four
MissingSets == {{}} \cup {{m} : m \in MetricSet} \cup {MetricSet}

\* the value of a present cell names the feed row and the column it came from
CellValue(i, k) == 10 * i + k

Cell(i, k, miss) == IF Metrics[k] \in miss THEN NaN ELSE CellValue(i, k)

\* the DataFrame built from the feed's parallel arrays: RangeIndex 0..n-1
DataFrame(times, missing) ==
    [i \in 1..Len(times) |->
        [idx           |-> i - 1,
         Time          |-> times[i],
         temperature   |-> Cell(i - 1, 1, missing[i]),
         wind_speed    |-> Cell(i - 1, 2, missing[i]),
         humidity      |-> Cell(i - 1, 3, missing[i]),
         precipitation |-> Cell(i - 1, 4, missing[i])]]

\* raw is some feed of at most MaxRawLen rows
IsRawFeed(df) ==
    \E n \in 0..MaxRawLen :
        \E t \in [1..n -> Timestamps] : \E m \in [1..n -> MissingSets] :
            df = DataFrame(t, m)

-----------------------------------------------------------------------------
(* clean_data *)

RECURSIVE DropFrom(_, _, _)
DropFrom(df, i, seen) ==
    IF i > Len(df) THEN <<>>
    ELSE IF df[i].Time \in seen THEN DropFrom(df, i + 1, seen)
    ELSE <<df[i]>> \o DropFrom(df, i + 1, seen \cup {df[i].Time})

\* faulty variant: keep='last'
DropDuplicatesKeepLast(df) ==
    LET last(i) == \A j \in DOMAIN df : j > i => df[j].Time # df[i].Time
    IN  SelectSeq(df, LAMBDA r : \E i \in DOMAIN df : df[i] = r /\ last(i))

\* faulty variant: the kept rows come out in reverse order
RECURSIVE ReverseSeq(_)
ReverseSeq(s) == IF s = <<>> THEN <<>> ELSE ReverseSeq(Tail(s)) \o <<Head(s)>>

DropDuplicatesReversed(df) == ReverseSeq(DropFrom(df, 1, {}))

\* df.drop_duplicates(subset=['Time']): keep='first', position order kept
DropDuplicates(df) == DropFrom(df, 1, {})

\* one cell padded from the row above
Pad(prev, cur) == IF cur = NaN THEN prev ELSE cur

PadRow(prev, cur) ==
    [cur EXCEPT !.temperature   = Pad(prev.temperature, @),
                !.wind_speed    = Pad(prev.wind_speed, @),
                !.humidity      = Pad(prev.humidity, @),
                !.precipitation = Pad(prev.precipitation, @)]

RECURSIVE PadFrom(_, _, _)
PadFrom(df, i, prev) ==
    IF i > Len(df) THEN <<>>
    ELSE LET r == PadRow(prev, df[i]) IN <<r>> \o PadFrom(df, i + 1, r)

\* faulty variant: fillna(df.shift()): a cell is filled from the raw row above only
FillFromShift(df) ==
    [i \in DOMAIN df |-> IF i = 1 THEN df[i] ELSE PadRow(df[i - 1], df[i])]

\* faulty variant: method='bfill'
FillBackward(df) == ReverseSeq(
    LET r == ReverseSeq(df)
    IN  IF r = <<>> THEN <<>> ELSE <<r[1]>> \o PadFrom(r, 2, r[1]))

\* df.fillna(method='ffill'): column-wise, in position order
FFill(df) == IF df = <<>> THEN <<>> ELSE <<df[1]>> \o PadFrom(df, 2, df[1])

clean_data(df) == FFill(DropDuplicates(df))

-----------------------------------------------------------------------------
(* update_forecast: window, alerts, summary, table.  Time is counted in    *)
(* half hours since midnight of day 0; the feed's rows are on the hour.    *)

\* an input left empty in the form (Python's None)
None == -1

\* timedelta(hours=1), in half hours
OneHour == 2

Stamp(day, hour) == 48 * day + OneHour * hour

\* Timestamp.date() and Timestamp.hour
DateOf(t) == t \div 48
HourOf(t) == (t % 48) \div OneHour
MinuteOf(t) == (t % OneHour) * 30

\* C * 9/5 + 32, kept exact as fifths of a degree Fahrenheit
Fahrenheit(c) == IF c = NaN THEN NaN ELSE 9 * c + 160

\* comparisons of a column with a scalar: a missing cell compares False
Gt(a, b) == a # NaN /\ a > b
Lt(a, b) == a # NaN /\ a < b

WithFahrenheit(r) ==
    [idx |-> r.idx, Time |-> r.Time, temperature |-> r.temperature,
     wind_speed |-> r.wind_speed, humidity |-> r.humidity,
     precipitation |-> r.precipitation,
     temperature_F |-> Fahrenheit(r.temperature)]

\* faulty variant: the hour filter keeps the start hour itself
WindowInclusive(df, date, start) ==
    LET day == SelectSeq(df, LAMBDA r : DateOf(r.Time) = date)
        f   == [i \in DOMAIN day |-> WithFahrenheit(day[i])]
    IN  IF start # None
        THEN SelectSeq(f, LAMBDA r : HourOf(r.Time) >= start)
        ELSE f

\* lines 249-254: the rows of the selected date, then of the hours after
\* alert_start_hour when it is set
Window(df, date, start) ==
    LET day == SelectSeq(df, LAMBDA r : DateOf(r.Time) = date)
        f   == [i \in DOMAIN day |-> WithFahrenheit(day[i])]
    IN  IF start # None
        THEN SelectSeq(f, LAMBDA r : HourOf(r.Time) > start)
        ELSE f

\* one alert line: its icon, the value and the time it reports
Alert(icon, value, time) == [icon |-> icon, value |-> value, Time |-> time]

\* the alert lines of the rows a scan has selected
AlertsOf(rows, icon, col) ==
    [i \in DOMAIN rows |-> Alert(icon, rows[i][col], rows[i].Time)]

RECURSIVE Concat(_)
Concat(ss) == IF ss = <<>> THEN <<>> ELSE Head(ss) \o Concat(Tail(ss))

\* the alerts of one row, in threshold order
RowAlerts(r, th) ==
    Concat(<<
        IF th.max_temp # None /\ Gt(r.temperature, th.max_temp)
            THEN <<Alert("fire", r.temperature, r.Time)>> ELSE <<>>,
        IF th.min_temp # None /\ Lt(r.temperature, th.min_temp)
            THEN <<Alert("snow", r.temperature, r.Time)>> ELSE <<>>,
        IF th.max_wind # None /\ Gt(r.wind_speed, th.max_wind)
            THEN <<Alert("wind", r.wind_speed, r.Time)>> ELSE <<>>,
        IF th.min_humidity # None /\ Lt(r.humidity, th.min_humidity)
            THEN <<Alert("drop", r.humidity, r.Time)>> ELSE <<>>,
        IF th.precip_threshold # None /\ Gt(r.precipitation, th.precip_threshold)
            THEN <<Alert("rain", r.precipitation, r.Time)>> ELSE <<>> >>)

\* faulty variant: one scan of the series, row by row, all thresholds per row
AlertsRowByRow(df, th) == Concat([i \in DOMAIN df |-> RowAlerts(df[i], th)])

\* lines 328-343: five scans of df_24h, one per threshold that is set
Alerts(df, th) ==
    Concat(<<
        IF th.max_temp # None
            THEN AlertsOf(SelectSeq(df, LAMBDA r : Gt(r.temperature, th.max_temp)),
                          "fire", "temperature")
            ELSE <<>>,
        IF th.min_temp # None
            THEN AlertsOf(SelectSeq(df, LAMBDA r : Lt(r.temperature, th.min_temp)),
                          "snow", "temperature")
            ELSE <<>>,
        IF th.max_wind # None
            THEN AlertsOf(SelectSeq(df, LAMBDA r : Gt(r.wind_speed, th.max_wind)),
                          "wind", "wind_speed")
            ELSE <<>>,
        IF th.min_humidity # None
            THEN AlertsOf(SelectSeq(df, LAMBDA r : Lt(r.humidity, th.min_humidity)),
                          "drop", "humidity")
            ELSE <<>>,
        IF th.precip_threshold # None
            THEN AlertsOf(SelectSeq(df, LAMBDA r :
                                       Gt(r.precipitation, th.precip_threshold)),
                          "rain", "precipitation")
            ELSE <<>> >>)

\* df.sort_values("Time")
RECURSIVE SortByTime(_)
SortByTime(df) ==
    IF df = <<>> THEN <<>>
    ELSE LET i == CHOOSE k \in DOMAIN df : \A j \in DOMAIN df :
                      df[k].Time < df[j].Time \/ (df[k].Time = df[j].Time /\ k <= j)
         IN  <<df[i]>> \o SortByTime([k \in 1..(Len(df) - 1) |->
                                          IF k < i THEN df[k] ELSE df[k + 1]])

\* Series.diff().abs(): missing in the first row and next to a missing cell
AbsDiff(df, i, col) ==
    IF i = 1 \/ df[i][col] = NaN \/ df[i - 1][col] = NaN THEN NaN
    ELSE IF df[i][col] >= df[i - 1][col] THEN df[i][col] - df[i - 1][col]
    ELSE df[i - 1][col] - df[i][col]

\* max() with skipna: the greatest present value, NaN if there is none
MaxSkipNa(vals) ==
    LET present == {v \in vals : v # NaN}
    IN  IF present = {} THEN NaN
        ELSE CHOOSE v \in present : \A w \in present : w <= v

DiffColumns == <<"temp_diff", "wind_diff", "humidity_diff">>
DiffSource == <<"temperature", "wind_speed", "humidity">>

\* line 356: the greatest absolute difference of each of the three columns
MaxChange(df) ==
    [k \in 1..3 |-> MaxSkipNa({AbsDiff(df, i, DiffSource[k]) : i \in DOMAIN df})]

\* faulty variant: the last label holding the maximum
IdxMaxLast(mc) ==
    LET best == MaxSkipNa({mc[k] : k \in DOMAIN mc})
    IN  IF best = NaN THEN NaN
        ELSE DiffColumns[CHOOSE k \in DOMAIN mc :
                 mc[k] = best /\ \A j \in DOMAIN mc : mc[j] = best => j <= k]

\* Series.idxmax(): the first label holding the maximum, NaN when all is NaN
IdxMax(mc) ==
    LET best == MaxSkipNa({mc[k] : k \in DOMAIN mc})
    IN  IF best = NaN THEN NaN
        ELSE DiffColumns[CHOOSE k \in DOMAIN mc :
                 mc[k] = best /\ \A j \in 1..(k - 1) : mc[j] # best]

NoChange == [metric |-> "none", magnitude |-> 0]

\* lines 360-367
SummaryText(metric, value) ==
    IF value # 0 /\ Gt(value, 0)
    THEN CASE metric = "temp_diff"     -> [metric |-> "Temperature", magnitude |-> value]
           [] metric = "wind_diff"     -> [metric |-> "Wind Speed", magnitude |-> value]
           [] metric = "humidity_diff" -> [metric |-> "Humidity", magnitude |-> value]
           [] OTHER                    -> NoChange
    ELSE NoChange

\* the closed trailing hour [now - 1h, now], for comparison with LastHour
LastHourClosed(df, t) ==
    SortByTime(SelectSeq(df, LAMBDA r : r.Time >= t - OneHour /\ r.Time <= t))

\* lines 349-351: the rows from one hour before now on, in time order
LastHour(df, t) == SortByTime(SelectSeq(df, LAMBDA r : r.Time >= t - OneHour))

\* lines 349-367
Summary(df, t) ==
    LET mc == MaxChange(LastHour(df, t))
    IN  SummaryText(IdxMax(mc), MaxSkipNa({mc[k] : k \in DOMAIN mc}))

\* strftime("%Y-%m-%d %H:%M")
FormatTime(t) == <<DateOf(t), HourOf(t), MinuteOf(t)>>

\* lines 370-378: the report rows, temperature in the unit asked for
Table(df, unit) ==
    [i \in DOMAIN df |->
        [Time   |-> FormatTime(df[i].Time),
         Temp   |-> IF unit = "C" THEN df[i].temperature
                    ELSE Fahrenheit(df[i].temperature),
         unit   |-> unit,
         Wind   |-> df[i].wind_speed,
         Humidity |-> df[i].humidity,
         Precip |-> df[i].precipitation]]

NoThresholds ==
    [max_temp |-> None, min_temp |-> None, max_wind |-> None,
     min_humidity |-> None, precip_threshold |-> None]

\* no update_forecast call in progress
NoRequest ==
    /\ target_date = 0
    /\ alert_start_hour = None
    /\ thresholds = NoThresholds
    /\ temp_unit = "C"
    /\ now = 0
    /\ df_24h = <<>>
    /\ alerts = <<>>
    /\ summary_text = NoChange
    /\ df_table = <<>>
    /\ reqPc = "idle"

\* lines 248-383 of update_forecast, on the cleaned frame
UpdateForecast ==
    /\ reqPc = "cleaned"
    /\ df_24h' = Window(df_clean, target_date, alert_start_hour)
    /\ alerts' = Alerts(df_24h', thresholds)
    /\ summary_text' = Summary(df_24h', now)
    /\ df_table' = Table(df_24h', temp_unit)
    /\ reqPc' = "done"
    /\ UNCHANGED <<df_clean, target_date, alert_start_hour, thresholds, temp_unit, now>>
    /\ UNCHANGED <<cleanVars, appVars>>

NextRequest == UpdateForecast

-----------------------------------------------------------------------------
(* The served application: calls of update_forecast run to completion one  *)
(* after another or interleaved (one thread per request), each reading the *)
(* wall clock where the code calls datetime.now().                         *)

\* the calls that may be in progress together
Procs == 1..2

\* two of the entries of CITIES
Cities == {"NEW YORK", "LONDON"}

\* the clock counts days and, within a day, half seconds since midnight;
\* it moves at most MaxClockEvents times in a run
MaxClockEvents == 1

\* strftime("%Y%m%d"): the date alone
DateStamp(c) == <<c.day>>

\* strftime("%Y%m%d_%H%M%S"): the date and the whole second
SecondStamp(c) == <<c.day, c.tick \div 2>>

\* datetime.now() on the scale of the Time column (half hours)
NowStamp(c) == Stamp(c.day, 0) + c.tick \div 3600

\* faulty variant: the report's date-only stamp used for the raw snapshot too
RawPathByDate(city, c) == <<"raw_weather_data", city, "raw", DateStamp(c)>>

\* lines 146-147, 156-157, 161-162: the snapshot file names
RawPath(city, c) == <<"raw_weather_data", city, "raw", SecondStamp(c)>>
CleanPath(city, c) == <<"cleaned_weather_data", city, "cleaned", SecondStamp(c)>>
ReportPath(city, c) == <<"weather_reports", city, "hourly_report", DateStamp(c)>>

\* the form's state when the callback fires; the city dropdown cannot be
\* cleared and the metric radio always holds one of its options
Requests ==
    {[alert_start_hour |-> None, detailed_feature |-> "all", temp_unit |-> "C",
      thresholds |-> [NoThresholds EXCEPT !.max_temp = 1]],
     [alert_start_hour |-> 23, detailed_feature |-> "temperature", temp_unit |-> "F",
      thresholds |-> [NoThresholds EXCEPT !.max_temp = 1]]}

\* what the forecast service answers for the day asked: two rows for 09:00
\* (a duplicate) and one for 10:00 without a temperature, or complete rows
\* for 09:00 and 10:00
Feeds(day) ==
    {DataFrame(<<Stamp(day, 9), Stamp(day, 9), Stamp(day, 10)>>,
               <<{}, {}, {"temperature"}>>),
     DataFrame(<<Stamp(day, 9), Stamp(day, 10)>>, <<{}, {}>>)}

Idle ==
    [pc |-> "idle", city |-> "", today |-> 0, target_date |-> 0,
     request |-> CHOOSE r \in Requests : TRUE, fetched |-> FALSE,
     df |-> <<>>, df_clean |-> <<>>, result |-> <<>>]

NoCalls ==
    /\ clock = [day |-> 0, tick |-> 0, events |-> 0]
    /\ inv = [p \in Procs |-> Idle]
    /\ files = {}
    /\ writes = {}

\* faulty variant: a step of lines 248-378 that raises on an empty window
RaisesOnEmptyWindow(df, feature) ==
    df = <<>> \/ feature \notin {"all"} \cup MetricSet

\* lines 248-378 raise exactly when icon_map is indexed by an unknown
\* feature (line 295); an empty frame goes through (means and maxima of
\* nothing are NaN, sums are 0)
Raises(df, feature) == feature \notin {"all"} \cup MetricSet

\* the values returned at line 383 that carry the result
Bundle(df, req, t) ==
    [df_24h       |-> df,
     alerts       |-> Alerts(df, req.thresholds),
     summary_text |-> Summary(df, t),
     df_table     |-> Table(df, req.temp_unit)]

Write(p, kind, name) ==
    /\ files' = files \cup {name}
    /\ writes' = writes \cup
           {[name |-> name, kind |-> kind, city |-> inv[p].city, by |-> p,
             day |-> clock.day, tick |-> clock.tick]}

\* lines 207-231: the callback fires; today is read from the clock
Start(p) ==
    /\ inv[p].pc = "idle"
    /\ \E city \in Cities : \E req \in Requests :
           inv' = [inv EXCEPT ![p] =
                      [Idle EXCEPT !.pc = "fetch", !.city = city, !.request = req,
                                   !.today = clock.day, !.target_date = clock.day]]
    /\ UNCHANGED <<clock, files, writes>>
    /\ UNCHANGED otherVars

\* lines 233-242: the request to the service and the frame of its answer;
\* an unreachable service or a malformed answer raises
Fetch(p) ==
    /\ inv[p].pc = "fetch"
    /\ \/ inv' = [inv EXCEPT ![p].pc = "failed"]
       \/ \E df \in Feeds(inv[p].target_date) :
              inv' = [inv EXCEPT ![p].pc = "save_raw", ![p].fetched = TRUE, ![p].df = df]
    /\ UNCHANGED <<clock, files, writes>>
    /\ UNCHANGED otherVars

\* line 244: save_raw_data
SaveRaw(p) ==
    /\ inv[p].pc = "save_raw"
    /\ Write(p, "raw", RawPath(inv[p].city, clock))
    /\ inv' = [inv EXCEPT ![p].pc = "save_clean"]
    /\ UNCHANGED clock
    /\ UNCHANGED otherVars

\* lines 245-246: clean_data, save_clean_data
SaveClean(p) ==
    /\ inv[p].pc = "save_clean"
    /\ Write(p, "cleaned", CleanPath(inv[p].city, clock))
    /\ inv' = [inv EXCEPT ![p].pc = "compute", ![p].df_clean = clean_data(inv[p].df)]
    /\ UNCHANGED clock
    /\ UNCHANGED otherVars

\* lines 248-378: window, cards, figure, alerts, summary, table
Compute(p) ==
    /\ inv[p].pc = "compute"
    /\ LET req == inv[p].request
           df  == Window(inv[p].df_clean, inv[p].target_date, req.alert_start_hour)
       IN  IF Raises(df, req.detailed_feature)
           THEN inv' = [inv EXCEPT ![p].pc = "failed"]
           ELSE inv' = [inv EXCEPT ![p].pc = "save_report",
                                   ![p].result = <<Bundle(df, req, NowStamp(clock))>>]
    /\ UNCHANGED <<clock, files, writes>>
    /\ UNCHANGED otherVars

\* lines 380-383: save_daily_report, then the return
SaveReport(p) ==
    /\ inv[p].pc = "save_report"
    /\ Write(p, "report", ReportPath(inv[p].city, clock))
    /\ inv' = [inv EXCEPT ![p].pc = "done"]
    /\ UNCHANGED clock
    /\ UNCHANGED otherVars

\* half a second or a whole second passes
Tick ==
    /\ clock.events < MaxClockEvents
    /\ \E d \in 1..2 : clock' = [clock EXCEPT !.tick = @ + d, !.events = @ + 1]
    /\ UNCHANGED <<inv, files, writes>>
    /\ UNCHANGED otherVars

\* midnight passes
Midnight ==
    /\ clock.events < MaxClockEvents
    /\ clock' = [day |-> clock.day + 1, tick |-> 0, events |-> clock.events + 1]
    /\ UNCHANGED <<inv, files, writes>>
    /\ UNCHANGED otherVars

InitApp ==
    /\ raw = <<>> /\ df_clean = <<>> /\ df_reclean = <<>> /\ cleanPc = "idle"
    /\ NoRequest
    /\ NoCalls

NextApp ==
    \/ \E p \in Procs : Start(p)
    \/ \E p \in Procs : Fetch(p)
    \/ \E p \in Procs : SaveRaw(p)
    \/ \E p \in Procs : SaveClean(p)
    \/ \E p \in Procs : Compute(p)
    \/ \E p \in Procs : SaveReport(p)
    \/ Tick
    \/ Midnight

Spec == InitApp /\ [][NextApp]_vars

-----------------------------------------------------------------------------
(* SpecClean: clean_data applied to every bounded raw feed, then again to  *)
(* its own output.                                                         *)

InitClean ==
    /\ IsRawFeed(raw)
    /\ df_clean = <<>>
    /\ df_reclean = <<>>
    /\ cleanPc = "raw"
    /\ NoRequest
    /\ NoCalls

Clean ==
    /\ cleanPc = "raw"
    /\ df_clean' = clean_data(raw)
    /\ cleanPc' = "cleaned"
    /\ UNCHANGED <<raw, df_reclean>>
    /\ UNCHANGED <<reqVars, appVars>>

CleanAgain ==
    /\ cleanPc = "cleaned"
    /\ df_reclean' = clean_data(df_clean)
    /\ cleanPc' = "recleaned"
    /\ UNCHANGED <<raw, df_clean>>
    /\ UNCHANGED <<reqVars, appVars>>

NextClean == Clean \/ CleanAgain

SpecClean == InitClean /\ [][NextClean]_vars

-----------------------------------------------------------------------------
(* Properties of clean_data, stated over the raw feed itself *)

SortedAsc(S) == \A i, j \in DOMAIN S : i < j => S[i].Time <= S[j].Time

StrictlyAsc(S) == \A i, j \in DOMAIN S : i < j => S[i].Time < S[j].Time

\* position in S of the first row stamped t
FirstPos(S, t) ==
    CHOOSE i \in DOMAIN S : S[i].Time = t /\ \A j \in 1..(i - 1) : S[j].Time # t

\* the deduplicated series: the first occurrence of every timestamp, feed order
Deduped(S) ==
    SelectSeq(S, LAMBDA r : \A j \in DOMAIN S : S[j].Time = r.Time => S[j].idx >= r.idx)

\* the value the claim of a fill by timestamp expects at row i, column m, of D
FillByTime(D, i, m) ==
    LET earlier == {j \in DOMAIN D : D[j].Time < D[i].Time /\ D[j][m] # NaN}
    IN  IF earlier = {} THEN NaN
        ELSE D[CHOOSE j \in earlier : \A k \in earlier : D[k].Time <= D[j].Time][m]

\* the value a fill by position gives at row i, column m, of D
FillByPosition(D, i, m) ==
    LET earlier == {j \in 1..(i - 1) : D[j][m] # NaN}
    IN  IF earlier = {} THEN NaN
        ELSE D[CHOOSE j \in earlier : \A k \in earlier : k <= j][m]

\* C2: the cleaned series holds one row per timestamp of the raw feed, and
\* that row is the feed's first row with that timestamp (same index label,
\* same present cells); later duplicates are gone.
C2_DedupKeepsFirst ==
    cleanPc # "raw" =>
        /\ \A i, j \in DOMAIN df_clean :
               df_clean[i].Time = df_clean[j].Time => i = j
        /\ Len(df_clean) = Cardinality({raw[k].Time : k \in DOMAIN raw})
        /\ \A k \in DOMAIN raw :
               LET first == raw[FirstPos(raw, raw[k].Time)]
               IN  \E i \in DOMAIN df_clean :
                       /\ df_clean[i].Time = first.Time
                       /\ df_clean[i].idx = first.idx
                       /\ \A m \in MetricSet :
                              first[m] # NaN => df_clean[i][m] = first[m]

C2_Witness ==
    /\ cleanPc = "cleaned"
    /\ Len(raw) = 3
    /\ raw[1].Time = raw[3].Time
    /\ raw[2].Time # raw[1].Time
    /\ raw[1].temperature # NaN /\ raw[3].temperature # NaN
    /\ Len(df_clean) = 2

\* C3 as stated: whatever the order of the feed, a cell missing at timestamp
\* T of the deduplicated series holds, after cleaning, the present value of
\* the latest timestamp strictly before T, and stays missing if there is none.
C3_FillByTimestampAnyOrder ==
    cleanPc # "raw" =>
        LET D == Deduped(raw)
        IN  /\ Len(df_clean) = Len(D)
            /\ \A i \in DOMAIN D : \A m \in MetricSet :
                   D[i][m] = NaN => df_clean[i][m] = FillByTime(D, i, m)

\* C3 amended: a missing cell is filled from the nearest present cell above
\* it in feed order (none above: it stays missing), a present cell is kept;
\* for a feed in ascending timestamp order that is the fill by timestamp.
C3_ForwardFill ==
    cleanPc # "raw" =>
        LET D == Deduped(raw)
        IN  /\ Len(df_clean) = Len(D)
            /\ \A i \in DOMAIN D : \A m \in MetricSet :
                   /\ D[i][m] # NaN => df_clean[i][m] = D[i][m]
                   /\ D[i][m] = NaN => df_clean[i][m] = FillByPosition(D, i, m)
                   /\ (SortedAsc(raw) /\ D[i][m] = NaN)
                          => df_clean[i][m] = FillByTime(D, i, m)

\* a sorted feed with a duplicate between the source and the filled cell, a
\* fill that passes over a missing cell, and a cell with nothing above it
C3_Witness ==
    /\ cleanPc = "cleaned"
    /\ SortedAsc(raw)
    /\ Len(raw) = 3
    /\ raw[1].Time = raw[2].Time
    /\ raw[3].Time # raw[1].Time
    /\ raw[1].temperature # NaN /\ raw[2].temperature # NaN
    /\ raw[3].temperature = NaN
    /\ df_clean[2].temperature = raw[1].temperature
    /\ raw[1].humidity = NaN /\ df_clean[1].humidity = NaN

\* C4 as stated: the cleaned series is in ascending timestamp order whatever
\* the order of the raw feed.
C4_SortedAnyOrder == cleanPc # "raw" => SortedAsc(df_clean)

\* C4 amended: cleaning keeps the feed's order (it never sorts), so the
\* cleaned series is strictly ascending whenever the feed is ascending.
C4_OrderKept ==
    cleanPc # "raw" =>
        /\ \A i, j \in DOMAIN df_clean : i < j => df_clean[i].idx < df_clean[j].idx
        /\ SortedAsc(raw) => StrictlyAsc(df_clean)

C4_Witness ==
    /\ cleanPc = "cleaned"
    /\ SortedAsc(raw)
    /\ Len(raw) = 3
    /\ raw[2].Time = raw[3].Time
    /\ Len(df_clean) = 2
    /\ df_clean[1].Time < df_clean[2].Time

\* C9: cleaning the cleaned series changes nothing.
C9_CleanIdempotent == cleanPc = "recleaned" => df_reclean = df_clean

C9_Witness ==
    /\ cleanPc = "recleaned"
    /\ Len(raw) = 3
    /\ Len(df_clean) = 2
    /\ \E i \in DOMAIN df_clean : \E m \in MetricSet :
           Deduped(raw)[i][m] = NaN /\ df_clean[i][m] # NaN
    /\ \E i \in DOMAIN df_clean : \E m \in MetricSet : df_clean[i][m] = NaN

-----------------------------------------------------------------------------
(* SpecWindow: update_forecast over cleaned feeds of two days, every       *)
(* selected date and start hour.                                           *)

\* longest feed of the window runs
MaxWindowLen == 3

WindowStamps == {Stamp(d, h) : d \in 0..1, h \in 0..2}
WindowDates == 0..2
StartHours == {None} \cup 0..2

\* df is the cleaning of some complete feed of at most MaxWindowLen rows
IsWindowInput(df) ==
    \E n \in 0..MaxWindowLen :
        \E t \in [1..n -> WindowStamps] :
            df = clean_data(DataFrame(t, [i \in 1..n |-> {}]))

InitWindow ==
    /\ raw = <<>> /\ df_reclean = <<>> /\ cleanPc = "idle"
    /\ IsWindowInput(df_clean)
    /\ target_date \in WindowDates
    /\ alert_start_hour \in StartHours
    /\ thresholds = NoThresholds
    /\ temp_unit = "C"
    /\ now = Stamp(0, 1)
    /\ df_24h = <<>> /\ alerts = <<>> /\ summary_text = NoChange /\ df_table = <<>>
    /\ reqPc = "cleaned"
    /\ NoCalls

SpecWindow == InitWindow /\ [][NextRequest]_vars

\* the rows the window is to keep
InWindow(r) ==
    /\ DateOf(r.Time) = target_date
    /\ alert_start_hour # None => HourOf(r.Time) > alert_start_hour

\* position in df_clean of the row stamped t
CleanPos(t) == CHOOSE i \in DOMAIN df_clean : df_clean[i].Time = t

\* C5: the windowed series holds exactly the cleaned rows of the selected
\* date whose hour is strictly after alert_start_hour (every hour when it is
\* not set), with their values, in the cleaned series' order.
C5_WindowExact ==
    reqPc = "done" =>
        /\ \A i \in DOMAIN df_clean :
               InWindow(df_clean[i]) <=>
                   \E j \in DOMAIN df_24h :
                       /\ df_24h[j].Time = df_clean[i].Time
                       /\ df_24h[j].idx = df_clean[i].idx
                       /\ \A m \in MetricSet : df_24h[j][m] = df_clean[i][m]
        /\ Len(df_24h) = Cardinality({i \in DOMAIN df_clean : InWindow(df_clean[i])})
        /\ \A i, j \in DOMAIN df_24h :
               i < j => CleanPos(df_24h[i].Time) < CleanPos(df_24h[j].Time)

\* start hour 1 with rows at hours 1 and 2 of the selected date and a row of
\* another date: only the hour-2 row is kept
C5_Witness ==
    /\ reqPc = "done"
    /\ target_date = 1
    /\ alert_start_hour = 1
    /\ {df_clean[i].Time : i \in DOMAIN df_clean} = {Stamp(1, 1), Stamp(1, 2), Stamp(0, 2)}
    /\ Len(df_24h) = 1
    /\ df_24h[1].Time = Stamp(1, 2)

-----------------------------------------------------------------------------
(* SpecAlerts: update_forecast over cleaned series of the selected day,    *)
(* every value around the thresholds, every set of thresholds set.         *)

\* longest series of the alert runs
MaxAlertLen == 2

\* a threshold is unset or 1; the values lie below, on and above it
ThresholdChoices == {None, 1}
AlertTemperatures == 0..2
AlertWinds == 1..2
AlertHumidities == 0..1
AlertPrecipitations == 1..2

\* hourly rows of day 0 from 09:00 on
HourlyFrame(vals) ==
    [i \in 1..Len(vals) |->
        [idx |-> i - 1, Time |-> Stamp(0, 8 + i),
         temperature |-> vals[i][1], wind_speed |-> vals[i][2],
         humidity |-> vals[i][3], precipitation |-> vals[i][4]]]

\* a cleaned series: the temperature may be missing in its first row only
IsAlertInput(df) ==
    \E n \in 0..MaxAlertLen :
        \E v \in [1..n -> AlertTemperatures \X AlertWinds
                           \X AlertHumidities \X AlertPrecipitations] :
            \/ df = HourlyFrame(v)
            \/ /\ n > 0
               /\ v[1][1] = 0
               /\ df = HourlyFrame([v EXCEPT ![1][1] = NaN])

InitAlerts ==
    /\ raw = <<>> /\ df_reclean = <<>> /\ cleanPc = "idle"
    /\ IsAlertInput(df_clean)
    /\ target_date = 0
    /\ alert_start_hour = None
    /\ thresholds \in [{"max_temp", "min_temp", "max_wind", "min_humidity",
                        "precip_threshold"} -> ThresholdChoices]
    /\ temp_unit = "C"
    /\ now = Stamp(0, 9)
    /\ df_24h = <<>> /\ alerts = <<>> /\ summary_text = NoChange /\ df_table = <<>>
    /\ reqPc = "cleaned"
    /\ NoCalls

SpecAlerts == InitAlerts /\ [][NextRequest]_vars

AlertIcons == <<"fire", "snow", "wind", "drop", "rain">>
AlertColumns == <<"temperature", "temperature", "wind_speed", "humidity", "precipitation">>

IconRank(icon) == CHOOSE k \in 1..5 : AlertIcons[k] = icon

\* row r violates the k-th threshold
Violates(k, r) ==
    LET v == r[AlertColumns[k]]
    IN  /\ v # NaN
        /\ CASE k = 1 -> thresholds.max_temp # None /\ v > thresholds.max_temp
             [] k = 2 -> thresholds.min_temp # None /\ v < thresholds.min_temp
             [] k = 3 -> thresholds.max_wind # None /\ v > thresholds.max_wind
             [] k = 4 -> thresholds.min_humidity # None /\ v < thresholds.min_humidity
             [] k = 5 -> thresholds.precip_threshold # None
                             /\ v > thresholds.precip_threshold

WindowPos(t) == CHOOSE i \in DOMAIN df_24h : df_24h[i].Time = t

\* C1: the alerts are the violations of the windowed series, one alert per
\* violating row and set threshold and no other, ordered by threshold
\* (max_temp, min_temp, max_wind, min_humidity, precip) and, within a
\* threshold, by position in the series; no threshold set gives none.
C1_AlertsPerThresholdScan ==
    reqPc = "done" =>
        /\ \A a \in DOMAIN alerts :
               \E k \in 1..5 : \E i \in DOMAIN df_24h :
                   /\ alerts[a].icon = AlertIcons[k]
                   /\ alerts[a].Time = df_24h[i].Time
                   /\ alerts[a].value = df_24h[i][AlertColumns[k]]
                   /\ Violates(k, df_24h[i])
        /\ \A k \in 1..5 : \A i \in DOMAIN df_24h :
               Cardinality({a \in DOMAIN alerts :
                                /\ alerts[a].icon = AlertIcons[k]
                                /\ alerts[a].Time = df_24h[i].Time})
                   = IF Violates(k, df_24h[i]) THEN 1 ELSE 0
        /\ \A a, b \in DOMAIN alerts :
               a < b =>
                   \/ IconRank(alerts[a].icon) < IconRank(alerts[b].icon)
                   \/ /\ alerts[a].icon = alerts[b].icon
                      /\ WindowPos(alerts[a].Time) < WindowPos(alerts[b].Time)
        /\ thresholds = NoThresholds => alerts = <<>>

\* two rows that both run too hot and too wet: the second row's heat alert
\* comes before the first row's rain alert
C1_Witness ==
    /\ reqPc = "done"
    /\ thresholds.max_temp # None /\ thresholds.precip_threshold # None
    /\ Len(df_24h) = 2
    /\ Len(alerts) = 4
    /\ alerts[2].icon = "fire" /\ alerts[2].Time = df_24h[2].Time
    /\ alerts[3].icon = "rain" /\ alerts[3].Time = df_24h[1].Time

-----------------------------------------------------------------------------
(* SpecSummary: update_forecast over cleaned hourly series of today, the   *)
(* clock before, on and after the rows' hours.                             *)

\* longest series of the summary runs; its rows are taken from as many hours
MaxSummaryLen == 3

SummaryStamps == {Stamp(0, 8 + k) : k \in 1..MaxSummaryLen}

\* 10:00, 10:30 and 11:00 of day 0
Nows == {Stamp(0, 10), Stamp(0, 10) + 1, Stamp(0, 11)}

SummaryTemperatures == 0..2
SummaryWinds == {0, 2}
SummaryHumidities == {0, 2}

RECURSIVE Ascending(_)
Ascending(S) ==
    IF S = {} THEN <<>>
    ELSE LET lo == CHOOSE x \in S : \A y \in S : x <= y
         IN  <<lo>> \o Ascending(S \ {lo})

\* hourly rows at the given stamps, in time order
StampedFrame(stamps, vals) ==
    [i \in 1..Len(vals) |->
        [idx |-> i - 1, Time |-> Ascending(stamps)[i],
         temperature |-> vals[i][1], wind_speed |-> vals[i][2],
         humidity |-> vals[i][3], precipitation |-> 0]]

\* a cleaned series: the temperature may be missing in its first row only
IsSummaryInput(df) ==
    \E stamps \in SUBSET SummaryStamps :
        \E v \in [1..Cardinality(stamps) ->
                     SummaryTemperatures \X SummaryWinds \X SummaryHumidities] :
            \/ df = StampedFrame(stamps, v)
            \/ /\ stamps # {}
               /\ v[1][1] = 0
               /\ df = StampedFrame(stamps, [v EXCEPT ![1][1] = NaN])

InitSummary ==
    /\ raw = <<>> /\ df_reclean = <<>> /\ cleanPc = "idle"
    /\ IsSummaryInput(df_clean)
    /\ target_date = 0
    /\ alert_start_hour = None
    /\ thresholds = NoThresholds
    /\ temp_unit = "C"
    /\ now \in Nows
    /\ df_24h = <<>> /\ alerts = <<>> /\ summary_text = NoChange /\ df_table = <<>>
    /\ reqPc = "cleaned"
    /\ NoCalls

SpecSummary == InitSummary /\ [][NextRequest]_vars

\* the row of the set rows that has exactly i - 1 rows before it in time
NthByTime(rows, i) ==
    CHOOSE r \in rows : Cardinality({x \in rows : x.Time < r.Time}) = i - 1

\* the absolute differences of column m between rows adjacent in time
AdjacentDiffs(rows, m) ==
    {LET a == NthByTime(rows, i)[m]
         b == NthByTime(rows, i + 1)[m]
     IN  IF a >= b THEN a - b ELSE b - a :
        i \in {k \in 1..(Cardinality(rows) - 1) :
                   /\ NthByTime(rows, k)[m] # NaN
                   /\ NthByTime(rows, k + 1)[m] # NaN}}

SummaryMetrics == <<"temperature", "wind_speed", "humidity">>
SummaryNames == <<"Temperature", "Wind Speed", "Humidity">>

\* the summary the claims expect of a set of rows: the metric of the
\* greatest adjacent difference, the first of temperature, wind_speed,
\* humidity on a tie; none when there is no difference or it is zero
ExpectedSummary(rows) ==
    LET all == UNION {AdjacentDiffs(rows, SummaryMetrics[k]) : k \in 1..3}
    IN  IF all = {} \/ \A d \in all : d = 0 THEN NoChange
        ELSE LET g == CHOOSE d \in all : \A e \in all : e <= d
                 k == CHOOSE j \in 1..3 :
                          /\ g \in AdjacentDiffs(rows, SummaryMetrics[j])
                          /\ \A i \in 1..(j - 1) :
                                 g \notin AdjacentDiffs(rows, SummaryMetrics[i])
             IN  [metric |-> SummaryNames[k], magnitude |-> g]

WindowRows == {df_24h[i] : i \in DOMAIN df_24h}

C10_TrailingHourOnly ==
    reqPc = "done" =>
        summary_text =
            ExpectedSummary({r \in WindowRows :
                                 r.Time >= now - OneHour /\ r.Time <= now})

-----------------------------------------------------------------------------
(* Properties of the served application (Spec) *)

\* C7 as stated: no two snapshot writes ever target the same name, so no
\* write overwrites an earlier snapshot.
C7_NoNameWrittenTwice ==
    \A w1, w2 \in writes : w1.name = w2.name => w1 = w2

\* C7 amended: two writes target the same name exactly when they are of the
\* same kind, for the same city, on the same date and, for raw and cleaned
\* snapshots, within the same clock second; writes for different cities
\* never meet.
C7_SameNameOnlyWithinStamp ==
    \A w1, w2 \in writes :
        w1.name = w2.name <=>
            /\ w1.kind = w2.kind
            /\ w1.city = w2.city
            /\ w1.day = w2.day
            /\ w1.kind # "report" => w1.tick \div 2 = w2.tick \div 2

\* two calls for one city: their raw snapshots, written half a second apart,
\* share a name, and so do their reports; a call for another city would not
C7_Witness ==
    \E w1, w2 \in writes :
        /\ w1.kind = "raw" /\ w2.kind = "raw"
        /\ w1.by # w2.by
        /\ w1.tick # w2.tick
        /\ w1.name = w2.name
        /\ \E r1, r2 \in writes :
               r1.kind = "report" /\ r2.kind = "report" /\ r1.by # r2.by
                   /\ r1.name = r2.name

WritesOf(p) == {w \in writes : w.by = p}

\* C8: a call that failed has failed at the feed step, with nothing written
\* and no result; a call that returned has written its three snapshots and
\* returns the whole bundle, of empty parts when its window is empty; no
\* call fails once the feed has answered.
C8_FailsAtFeedOrFullBundle ==
    \A p \in Procs :
        LET c == inv[p]
        IN  /\ c.pc = "failed" =>
                   ~c.fetched /\ c.result = <<>> /\ WritesOf(p) = {}
            /\ c.fetched => c.pc # "failed"
            /\ c.pc = "done" =>
                   /\ c.fetched
                   /\ Len(c.result) = 1
                   /\ DOMAIN c.result[1] = {"df_24h", "alerts", "summary_text", "df_table"}
                   /\ Len(c.result[1].df_table) = Len(c.result[1].df_24h)
                   /\ c.result[1].df_24h = <<>> =>
                          /\ c.result[1].alerts = <<>>
                          /\ c.result[1].summary_text = NoChange
                   /\ {w.kind : w \in WritesOf(p)} = {"raw", "cleaned", "report"}

\* one call returned on a window its start hour emptied, from a feed that
\* had rows; the other failed at the feed
C8_Witness ==
    \E p, q \in Procs :
        /\ inv[p].pc = "done"
        /\ inv[p].df_clean # <<>>
        /\ inv[p].result[1].df_24h = <<>>
        /\ inv[q].pc = "failed"

=============================================================================
